---------------------------- MODULE Spec2Model ----------------------------
(***************************************************************************)
(* TeluScript: live microphone capture feeding a pretrained speech model.  *)
(*                                                                         *)
(* Three programs of the repository are modelled:                          *)
(*   live_asr.py        callback thread + main loop of                     *)
(*                      run_live_transcription       (specification Spec)  *)
(*   audio_streamer.py  callback thread + waiting owner thread             *)
(*                                          (specification SpecStreamer)   *)
(*   transcriber.py     transcribe_chunk as a function of the segments the *)
(*                      decode routine yields  (specification SpecText)    *)
(*                                                                         *)
(* An audio block is identified by its arrival index (1, 2, ...): the      *)
(* callback of live_asr copies, flattens and casts a mono float32 block,   *)
(* which keeps its samples, and np.concatenate keeps the order of the      *)
(* list, so an array is modelled by the sequence of blocks it is made of.  *)
(* A text is a sequence of characters.                                     *)
(***************************************************************************)
EXTENDS Naturals, Sequences, FiniteSets

VARIABLES
    \* ---- live_asr.py / transcriber.py (process of run_live_transcription)
    pc,               \* position of the main thread
    model,            \* transcriber.model: "unbound" or "WhisperModel"
    load_attempts,    \* number of WhisperModel(...) constructions so far
    stream_open,      \* the sd.InputStream of run_live_transcription is active
    audio_buffer,     \* live_asr.audio_buffer
    audio_data,       \* local audio_data of run_live_transcription
    transcribed_text, \* local transcribed_text of run_live_transcription
    received,         \* number of blocks the callback has received
    calls,            \* history: the transcribe_chunk calls made, in order
    stdout,           \* the lines printed, in order
    \* ---- audio_streamer.py (process of start_stream)
    s_pc,             \* position of the owning thread of start_stream
    s_stream_open,    \* the sd.InputStream of start_stream is active
    s_audio_buffer,   \* audio_streamer.audio_buffer
    s_invocations,    \* number of callback invocations so far
    s_stdout,         \* the lines printed, in order
    \* ---- transcribe_chunk as a function
    t_pc,             \* "ready" or "done"
    t_segments,       \* the segment texts the decode routine yields
    t_result          \* the string returned

live_vars == <<pc, model, load_attempts, stream_open, audio_buffer, audio_data,
               transcribed_text, received, calls, stdout>>
streamer_vars == <<s_pc, s_stream_open, s_audio_buffer, s_invocations, s_stdout>>
text_vars == <<t_pc, t_segments, t_result>>
vars == <<live_vars, streamer_vars, text_vars>>

---------------------------------------------------------------------------
\* Bounds of the model.
MaxBlocks == 3         \* blocks the driver delivers to live_asr
MaxStreamBlocks == 8   \* blocks the driver delivers to audio_streamer
MaxSegs == 2           \* segments yielded by one decode (SpecText)
MaxSegLen == 2         \* characters of one segment text (SpecText)

\* Characters: one letter and two kinds of whitespace.
Chars == {"a", " ", "\t"}
Whitespace == {" ", "\t"}

RECURSIVE SeqsUpTo(_, _)
SeqsUpTo(S, n) ==
    IF n = 0 THEN {<<>>}
    ELSE LET shorter == SeqsUpTo(S, n - 1)
         IN  shorter \cup {Append(s, x) : s \in {t \in shorter : Len(t) = n - 1}, x \in S}

Texts == SeqsUpTo(Chars, MaxSegLen)
SegmentSeqs == SeqsUpTo(Texts, MaxSegs)

\* Decode results offered to the live loop: no segment, a blank segment, one
\* word, two words with surrounding blanks.
LiveSegments == { <<>>, << <<" ">> >>, << <<"a">> >>, << <<" ", "a">>, <<"a", " ">> >> }

---------------------------------------------------------------------------
\* transcriber.py: " ".join(full_text).strip()

\* str.join
RECURSIVE Join(_, _)
Join(sep, parts) ==
    IF parts = <<>> THEN <<>>
    ELSE IF Len(parts) = 1 THEN parts[1]
    ELSE parts[1] \o sep \o Join(sep, Tail(parts))

RECURSIVE LStrip(_)
LStrip(s) == IF s # <<>> /\ s[1] \in Whitespace THEN LStrip(Tail(s)) ELSE s

RECURSIVE RStrip(_)
RStrip(s) ==
    IF s # <<>> /\ s[Len(s)] \in Whitespace THEN RStrip(SubSeq(s, 1, Len(s) - 1)) ELSE s

\* Mutant of Strip: str.lstrip in place of str.strip.
StripLeftOnly(s) == LStrip(s)

\* str.strip with no argument: both ends
Strip(s) == RStrip(LStrip(s))

\* The for loop appends segment.text of every segment in the order yielded.
full_text(segments) == [i \in 1..Len(segments) |-> segments[i]]

transcribe_chunk(segments) == Strip(Join(<<" ">>, full_text(segments)))

---------------------------------------------------------------------------
\* live_asr.py

Line(kind, text) == [kind |-> kind, text |-> text]
NoText == <<>>

\* Flattened sequence of the blocks of a sequence of calls.
RECURSIVE Passed(_)
Passed(cs) == IF cs = <<>> THEN <<>> ELSE cs[1].blocks \o Passed(Tail(cs))

Range(s) == {s[i] : i \in 1..Len(s)}

\* transcriber.py, module level: try: model = WhisperModel(...) except: print
ImportTranscriber ==
    /\ pc = "import"
    /\ load_attempts' = load_attempts + 1
    /\ \/ /\ model' = "WhisperModel"
          /\ stdout' = Append(stdout, Line("Loaded Whisper model", NoText))
       \/ /\ model' = model
          /\ stdout' = Append(stdout, Line("Error loading Whisper model", NoText))
    /\ pc' = "open"
    /\ UNCHANGED <<stream_open, audio_buffer, audio_data, transcribed_text,
                   received, calls>>
    /\ UNCHANGED <<streamer_vars, text_vars>>

\* run_live_transcription up to the loop: print, enter the with block.  When
\* sd.InputStream raises, the exception leaves run_live_transcription and
\* __main__ prints the fatal error.
OpenStream ==
    /\ pc = "open"
    /\ \/ /\ stream_open' = TRUE
          /\ pc' = "check"
          /\ stdout' = stdout \o <<Line("Starting live Telugu ASR stream", NoText),
                                   Line("SPEAK IN TELUGU NOW", NoText)>>
       \/ /\ stream_open' = FALSE
          /\ pc' = "stopped"
          /\ stdout' = stdout \o <<Line("Starting live Telugu ASR stream", NoText),
                                   Line("A fatal error occurred", NoText)>>
    /\ UNCHANGED <<model, load_attempts, audio_buffer, audio_data, transcribed_text,
                   received, calls>>
    /\ UNCHANGED <<streamer_vars, text_vars>>

\* Mutant of callback: a one-slot buffer that refuses a block while it is full.
callbackBounded ==
    /\ stream_open
    /\ received < MaxBlocks
    /\ Len(audio_buffer) < 1
    /\ \E status \in BOOLEAN :
          stdout' = IF status THEN Append(stdout, Line("Audio Stream Status", NoText))
                    ELSE stdout
    /\ received' = received + 1
    /\ audio_buffer' = Append(audio_buffer, received + 1)
    /\ UNCHANGED <<pc, model, load_attempts, stream_open, audio_data,
                   transcribed_text, calls>>
    /\ UNCHANGED <<streamer_vars, text_vars>>

\* callback(indata, frames, time_info, status), on the driver's thread.
callback ==
    /\ stream_open
    /\ received < MaxBlocks
    /\ \E status \in BOOLEAN :
          stdout' = IF status THEN Append(stdout, Line("Audio Stream Status", NoText))
                    ELSE stdout
    /\ received' = received + 1
    /\ audio_buffer' = Append(audio_buffer, received + 1)
    /\ UNCHANGED <<pc, model, load_attempts, stream_open, audio_data,
                   transcribed_text, calls>>
    /\ UNCHANGED <<streamer_vars, text_vars>>

\* Mutant of CheckBuffer: a batch needs at least two blocks.
CheckBufferNeedsTwo ==
    /\ pc = "check"
    /\ pc' = IF Len(audio_buffer) > 1 THEN "concatenate" ELSE "sleep"
    /\ UNCHANGED <<model, load_attempts, stream_open, audio_buffer, audio_data,
                   transcribed_text, received, calls, stdout>>
    /\ UNCHANGED <<streamer_vars, text_vars>>

\* Mutant of CheckBuffer: the test of the buffer is missing.
CheckBufferAlways ==
    /\ pc = "check"
    /\ pc' = "concatenate"
    /\ UNCHANGED <<model, load_attempts, stream_open, audio_buffer, audio_data,
                   transcribed_text, received, calls, stdout>>
    /\ UNCHANGED <<streamer_vars, text_vars>>

\* if audio_buffer:
CheckBuffer ==
    /\ pc = "check"
    /\ pc' = IF audio_buffer # <<>> THEN "concatenate" ELSE "sleep"
    /\ UNCHANGED <<model, load_attempts, stream_open, audio_buffer, audio_data,
                   transcribed_text, received, calls, stdout>>
    /\ UNCHANGED <<streamer_vars, text_vars>>

\* audio_data = np.concatenate(audio_buffer, axis=0)
Concatenate ==
    /\ pc = "concatenate"
    /\ audio_data' = audio_buffer
    /\ pc' = "clear"
    /\ UNCHANGED <<model, load_attempts, stream_open, audio_buffer,
                   transcribed_text, received, calls, stdout>>
    /\ UNCHANGED <<streamer_vars, text_vars>>

\* Mutant of ClearBuffer: the clear is missing.
ClearBufferSkipped ==
    /\ pc = "clear"
    /\ pc' = "transcribe"
    /\ UNCHANGED <<model, load_attempts, stream_open, audio_buffer, audio_data,
                   transcribed_text, received, calls, stdout>>
    /\ UNCHANGED <<streamer_vars, text_vars>>

\* audio_buffer.clear()
ClearBuffer ==
    /\ pc = "clear"
    /\ audio_buffer' = <<>>
    /\ pc' = "transcribe"
    /\ UNCHANGED <<model, load_attempts, stream_open, audio_data,
                   transcribed_text, received, calls, stdout>>
    /\ UNCHANGED <<streamer_vars, text_vars>>

\* Mutant of TranscribeRaises: no except clause, the exception leaves the
\* loop and the with block and __main__ reports it.
TranscribeRaisesEscapes ==
    /\ calls' = Append(calls, [blocks |-> audio_data, outcome |-> "raised",
                               text |-> NoText])
    /\ stdout' = Append(stdout, Line("A fatal error occurred", NoText))
    /\ pc' = "stopped"
    /\ stream_open' = FALSE
    /\ UNCHANGED <<model, load_attempts, audio_buffer, audio_data,
                   transcribed_text, received>>

\* Mutant of TranscribeRaises: the except clause puts the batch back in front
\* of the buffer for the next iteration.
TranscribeRaisesRequeues ==
    /\ calls' = Append(calls, [blocks |-> audio_data, outcome |-> "raised",
                               text |-> NoText])
    /\ stdout' = Append(stdout, Line("Transcription Error", NoText))
    /\ audio_buffer' = audio_data \o audio_buffer
    /\ pc' = "sleep"
    /\ UNCHANGED <<model, load_attempts, stream_open, audio_data,
                   transcribed_text, received>>

\* except Exception as e: print(f"Transcription Error: {e}")
TranscribeRaises ==
    /\ calls' = Append(calls, [blocks |-> audio_data, outcome |-> "raised",
                               text |-> NoText])
    /\ stdout' = Append(stdout, Line("Transcription Error", NoText))
    /\ pc' = "sleep"
    /\ UNCHANGED <<model, load_attempts, stream_open, audio_buffer, audio_data,
                   transcribed_text, received>>

\* Mutant of TranscribeReturns: the test of transcribed_text is missing.
TranscribeReturnsAlwaysPrints(text) ==
    /\ calls' = Append(calls, [blocks |-> audio_data, outcome |-> "returned",
                               text |-> text])
    /\ transcribed_text' = text
    /\ stdout' = Append(stdout, Line("LIVE TEXT", text))
    /\ pc' = "sleep"
    /\ UNCHANGED <<model, load_attempts, stream_open, audio_buffer, audio_data,
                   received>>

\* transcribed_text = transcribe_chunk(audio_data); if transcribed_text: print
TranscribeReturns(text) ==
    /\ calls' = Append(calls, [blocks |-> audio_data, outcome |-> "returned",
                               text |-> text])
    /\ transcribed_text' = text
    /\ stdout' = IF text # <<>> THEN Append(stdout, Line("LIVE TEXT", text))
                 ELSE stdout
    /\ pc' = "sleep"
    /\ UNCHANGED <<model, load_attempts, stream_open, audio_buffer, audio_data,
                   received>>

\* Mutant of Transcribe: transcribe_chunk constructs the model on each call.
TranscribeReloadsModel ==
    /\ pc = "transcribe"
    /\ load_attempts' = load_attempts + 1
    /\ model' = "WhisperModel"
    /\ \E segments \in LiveSegments :
          LET text == transcribe_chunk(segments)
          IN  /\ calls' = Append(calls, [blocks |-> audio_data,
                                         outcome |-> "returned", text |-> text])
              /\ transcribed_text' = text
              /\ stdout' = IF text # <<>> THEN Append(stdout, Line("LIVE TEXT", text))
                           ELSE stdout
    /\ pc' = "sleep"
    /\ UNCHANGED <<stream_open, audio_buffer, audio_data, received>>
    /\ UNCHANGED <<streamer_vars, text_vars>>

\* Mutant of Transcribe: the call decodes whether or not the model is bound.
TranscribeIgnoresUnbound ==
    /\ pc = "transcribe"
    /\ \/ TranscribeRaises
       \/ \E segments \in LiveSegments :
             TranscribeReturns(transcribe_chunk(segments))
    /\ UNCHANGED <<streamer_vars, text_vars>>

\* The try statement of the loop.  model.transcribe raises a NameError when
\* the module-level load failed, and the decode may raise on its own.
Transcribe ==
    /\ pc = "transcribe"
    /\ IF model = "unbound"
       THEN TranscribeRaises
       ELSE \/ TranscribeRaises
            \/ \E segments \in LiveSegments :
                  TranscribeReturns(transcribe_chunk(segments))
    /\ UNCHANGED <<streamer_vars, text_vars>>

\* time.sleep(CHUNK_DURATION_SECONDS / 4), then the next iteration
Sleep ==
    /\ pc = "sleep"
    /\ pc' = "check"
    /\ UNCHANGED <<model, load_attempts, stream_open, audio_buffer, audio_data,
                   transcribed_text, received, calls, stdout>>
    /\ UNCHANGED <<streamer_vars, text_vars>>

\* Mutant of KeyboardInterrupt: the stream is not closed on the way out.
KeyboardInterruptLeavesStreamOpen ==
    /\ pc \in {"open", "check", "concatenate", "clear", "transcribe", "sleep"}
    /\ pc' = "stopped"
    /\ stdout' = Append(stdout, Line("Stopping Real-Time ASR", NoText))
    /\ UNCHANGED <<model, load_attempts, stream_open, audio_buffer, audio_data,
                   transcribed_text, received, calls>>
    /\ UNCHANGED <<streamer_vars, text_vars>>

\* Ctrl+C: KeyboardInterrupt is no Exception, leaves the loop and the with
\* block (which closes the stream) and is reported by __main__.
KeyboardInterrupt ==
    /\ pc \in {"open", "check", "concatenate", "clear", "transcribe", "sleep"}
    /\ pc' = "stopped"
    /\ stream_open' = FALSE
    /\ stdout' = Append(stdout, Line("Stopping Real-Time ASR", NoText))
    /\ UNCHANGED <<model, load_attempts, audio_buffer, audio_data,
                   transcribed_text, received, calls>>
    /\ UNCHANGED <<streamer_vars, text_vars>>

MainStep ==
    \/ ImportTranscriber
    \/ OpenStream
    \/ CheckBuffer
    \/ Concatenate
    \/ ClearBuffer
    \/ Transcribe
    \/ Sleep

LiveInit ==
    /\ pc = "import"
    /\ model = "unbound"
    /\ load_attempts = 0
    /\ stream_open = FALSE
    /\ audio_buffer = <<>>
    /\ audio_data = <<>>
    /\ transcribed_text = <<>>
    /\ received = 0
    /\ calls = <<>>
    /\ stdout = <<>>

StreamerInit ==
    /\ s_pc = "start"
    /\ s_stream_open = FALSE
    /\ s_audio_buffer = <<>>
    /\ s_invocations = 0
    /\ s_stdout = <<>>

TextIdle ==
    /\ t_pc = "ready"
    /\ t_segments = <<>>
    /\ t_result = <<>>

Init == LiveInit /\ StreamerInit /\ TextIdle

Next ==
    \/ ImportTranscriber
    \/ OpenStream
    \/ callback
    \/ CheckBuffer
    \/ Concatenate
    \/ ClearBuffer
    \/ Transcribe
    \/ Sleep
    \/ KeyboardInterrupt

Spec == Init /\ [][Next]_vars

---------------------------------------------------------------------------
\* audio_streamer.py

\* start_stream up to the loop: print, enter the with block, print.  When
\* sd.InputStream raises, __main__ prints the error.
start_stream ==
    /\ s_pc = "start"
    /\ \/ /\ s_stream_open' = TRUE
          /\ s_pc' = "while"
          /\ s_stdout' = s_stdout \o <<Line("Starting audio stream", NoText),
                                       Line("Listening", NoText)>>
       \/ /\ s_stream_open' = FALSE
          /\ s_pc' = "stopped"
          /\ s_stdout' = s_stdout \o <<Line("Starting audio stream", NoText),
                                       Line("An error occurred", NoText)>>
    /\ UNCHANGED <<s_audio_buffer, s_invocations>>
    /\ UNCHANGED <<live_vars, text_vars>>

\* callback(indata, frames, time_info, status), on the driver's thread.
streamer_callback ==
    /\ s_stream_open
    /\ s_invocations < MaxStreamBlocks
    /\ \E status \in BOOLEAN :
          s_stdout' = IF status
                      THEN Append(s_stdout, Line("Audio Stream Warning", NoText))
                      ELSE s_stdout
    /\ s_invocations' = s_invocations + 1
    /\ s_audio_buffer' = Append(s_audio_buffer, s_invocations + 1)
    /\ UNCHANGED <<s_pc, s_stream_open>>
    /\ UNCHANGED <<live_vars, text_vars>>

\* while True: time.sleep(CHUNK_DURATION) -- the owning thread enters the sleep
StreamerSleep ==
    /\ s_pc = "while"
    /\ s_pc' = "sleep"
    /\ UNCHANGED <<s_stream_open, s_audio_buffer, s_invocations, s_stdout>>
    /\ UNCHANGED <<live_vars, text_vars>>

\* Mutant of StreamerWake: the owner drains the buffer as live_asr does.
StreamerWakeDrains ==
    /\ s_pc = "sleep"
    /\ s_pc' = "while"
    /\ s_audio_buffer' = <<>>
    /\ UNCHANGED <<s_stream_open, s_invocations, s_stdout>>
    /\ UNCHANGED <<live_vars, text_vars>>

\* ... and returns from it to the head of the loop
StreamerWake ==
    /\ s_pc = "sleep"
    /\ s_pc' = "while"
    /\ UNCHANGED <<s_stream_open, s_audio_buffer, s_invocations, s_stdout>>
    /\ UNCHANGED <<live_vars, text_vars>>

\* Ctrl+C in start_stream: the with block closes the stream, __main__ prints.
StreamerInterrupt ==
    /\ s_pc \in {"start", "while", "sleep"}
    /\ s_pc' = "stopped"
    /\ s_stream_open' = FALSE
    /\ s_stdout' = Append(s_stdout, Line("Stopping stream", NoText))
    /\ UNCHANGED <<s_audio_buffer, s_invocations>>
    /\ UNCHANGED <<live_vars, text_vars>>

InitStreamer == LiveInit /\ StreamerInit /\ TextIdle

NextStreamer ==
    \/ start_stream
    \/ streamer_callback
    \/ StreamerSleep
    \/ StreamerWake
    \/ StreamerInterrupt

SpecStreamer == InitStreamer /\ [][NextStreamer]_vars

---------------------------------------------------------------------------
\* transcriber.py: transcribe_chunk on every bounded sequence of segments

InitText ==
    /\ LiveInit
    /\ StreamerInit
    /\ t_pc = "ready"
    /\ t_segments \in SegmentSeqs
    /\ t_result = <<>>

\* One call whose decode yields t_segments and does not raise.
TranscribeChunk ==
    /\ t_pc = "ready"
    /\ t_result' = transcribe_chunk(t_segments)
    /\ t_pc' = "done"
    /\ UNCHANGED t_segments
    /\ UNCHANGED <<live_vars, streamer_vars>>

NextText == TranscribeChunk

SpecText == InitText /\ [][NextText]_vars

---------------------------------------------------------------------------
\* The main thread of run_live_transcription is an ordinary running thread:
\* a step it can take is eventually taken.  The driver's callback and Ctrl+C
\* are the environment's and get no fairness.
FairSpec == Spec /\ WF_vars(MainStep)

---------------------------------------------------------------------------
\* Properties

Blocks == 1..MaxBlocks
LastCall == calls[Len(calls)]
LiveLines(out) == Cardinality({i \in 1..Len(out) : out[i].kind = "LIVE TEXT"})
NonEmptyReturns(cs) ==
    Cardinality({i \in 1..Len(cs) : cs[i].outcome = "returned" /\ cs[i].text # <<>>})

\* C1: while the main loop runs, every block the callback appended is still in
\* audio_buffer, is in the array about to be passed to transcribe_chunk, or was
\* passed to a transcribe_chunk call: audio_buffer.clear() discards no block
\* that the preceding np.concatenate did not include.
C1_NoBlockDiscarded ==
    pc # "stopped" =>
        \A b \in 1..received :
            \/ b \in Range(audio_buffer)
            \/ pc \in {"clear", "transcribe"} /\ b \in Range(audio_data)
            \/ b \in Range(Passed(calls))

\* C2: a transcribe_chunk call that raises leaves the stream open and the main
\* thread in the loop, at its sleep, from where it polls the buffer again.
C2_TranscribeErrorDoesNotHalt ==
    /\ [][(Len(calls') = Len(calls) + 1 /\ calls'[Len(calls')].outcome = "raised")
            => (stream_open' /\ pc' = "sleep")]_vars
    /\ []((calls # <<>> /\ LastCall.outcome = "raised" /\ pc # "stopped")
            => (stream_open /\ pc \in {"sleep", "check", "concatenate", "clear",
                                       "transcribe"}))

\* A call raised, the callback appended a later block and a later call took it.
C2_Witness ==
    /\ Len(calls) >= 2
    /\ calls[1].outcome = "raised"
    /\ stream_open
    /\ \E b \in Range(calls[2].blocks) : \A a \in Range(calls[1].blocks) : a < b

\* C4: the model is constructed once, by the import, before any
\* transcribe_chunk call, and nothing after the import constructs or rebinds it.
C4_ModelLoadedOnce ==
    /\ [](pc # "import" => load_attempts = 1)
    /\ [](calls # <<>> => load_attempts = 1)
    /\ [][pc # "import" => (model' = model /\ load_attempts' = load_attempts)]_vars

C4_Witness ==
    /\ Len(calls) >= 2
    /\ model = "WhisperModel"
    /\ load_attempts = 1
    /\ calls[1].outcome = "returned"
    /\ calls[2].outcome = "returned"

\* C5: as long as the stream is open the callback can append, whatever the
\* main thread is doing and however many blocks the buffer holds (the model's
\* driver delivers MaxBlocks blocks).
C5_NoBackpressure ==
    (stream_open /\ received < MaxBlocks) => ENABLED callback

\* The main thread is inside transcribe_chunk and every block delivered since
\* the drain is held in the buffer.
C5_Witness ==
    /\ pc = "transcribe"
    /\ received = MaxBlocks
    /\ Len(audio_buffer) = MaxBlocks - 1
    /\ Len(audio_buffer) >= 2

\* C7: the blocks passed to transcribe_chunk, over all calls in call order,
\* are in strictly increasing arrival order: a subsequence of the arrival
\* order with no block twice.
C7_ArrivalOrderNoDuplicates ==
    LET p == Passed(calls)
    IN  /\ \A i \in 1..Len(p) : p[i] \in 1..received
        /\ \A i, j \in 1..Len(p) : i < j => p[i] < p[j]

C7_Witness ==
    /\ Len(calls) = 2
    /\ Len(calls[1].blocks) = 2
    /\ Len(calls[2].blocks) = 1

\* C8: under fair scheduling of the main thread, a block in audio_buffer is
\* eventually no longer in it, unless the loop is stopped (Ctrl+C).
C8_EveryBlockDrained ==
    \A b \in Blocks :
        (b \in Range(audio_buffer)) ~> (b \notin Range(audio_buffer) \/ pc = "stopped")

\* The last block was appended and then drained by a running loop.
C8_Witness ==
    /\ received = MaxBlocks
    /\ MaxBlocks \in Range(Passed(calls))
    /\ audio_buffer = <<>>
    /\ pc = "sleep"

\* C9: transcribe_chunk is only reached with a non-empty buffer seen by the
\* check and is never passed the concatenation of zero blocks.
C9_NeverZeroBlocks ==
    /\ \A i \in 1..Len(calls) : Len(calls[i].blocks) >= 1
    /\ pc = "concatenate" => audio_buffer # <<>>
    /\ pc \in {"clear", "transcribe"} => audio_data # <<>>

\* A call with one block and a call with two.
C9_Witness ==
    /\ Len(calls) = 2
    /\ Len(calls[1].blocks) = 1
    /\ Len(calls[2].blocks) = 2

\* C10: a LIVE TEXT line is printed only by the step in which a
\* transcribe_chunk call returns a non-empty string, one line in that step, so
\* there are never more LIVE TEXT lines than calls that returned a non-empty
\* string.
C10_LiveTextOnlyForNonEmpty ==
    /\ [][LiveLines(stdout') # LiveLines(stdout)
            => /\ LiveLines(stdout') = LiveLines(stdout) + 1
               /\ Len(calls') = Len(calls) + 1
               /\ calls'[Len(calls')].outcome = "returned"
               /\ calls'[Len(calls')].text # <<>>
               /\ stdout'[Len(stdout')] = Line("LIVE TEXT", calls'[Len(calls')].text)]_vars
    /\ [](LiveLines(stdout) <= NonEmptyReturns(calls))

\* One call raised, one returned the empty string, one returned text, and
\* exactly one LIVE TEXT line was printed.
C10_Witness ==
    /\ Len(calls) = 3
    /\ \E i \in 1..3 : calls[i].outcome = "raised"
    /\ \E i \in 1..3 : calls[i].outcome = "returned" /\ calls[i].text = <<>>
    /\ \E i \in 1..3 : calls[i].outcome = "returned" /\ calls[i].text # <<>>
    /\ LiveLines(stdout) = 1

\* C6: in audio_streamer the buffer holds one entry per callback invocation
\* and no step shortens or rewrites it.
C6_StreamerBufferOnlyGrows ==
    /\ [](Len(s_audio_buffer) = s_invocations)
    /\ [][/\ Len(s_audio_buffer') >= Len(s_audio_buffer)
          /\ SubSeq(s_audio_buffer', 1, Len(s_audio_buffer)) = s_audio_buffer]_vars

\* The owner has slept and woken while blocks arrived.
C6_Witness ==
    /\ s_pc = "while"
    /\ s_invocations = MaxStreamBlocks
    /\ Len(s_audio_buffer) = MaxStreamBlocks

\* C3: the result of transcribe_chunk is the segment texts, in the order
\* yielded, with one space between neighbours, cut at the first and after the
\* last character that is not whitespace; no segment gives the empty string.
\* The joined string is described position by position.

\* Number of characters of the joined string before segment k.
RECURSIVE Offset(_, _)
Offset(parts, k) == IF k = 1 THEN 0 ELSE Offset(parts, k - 1) + Len(parts[k - 1]) + 1

JoinedLen(parts) ==
    IF parts = <<>> THEN 0 ELSE Offset(parts, Len(parts)) + Len(parts[Len(parts)])

\* Character p of the joined string: inside segment k, or the space after it.
JoinedAt(parts, p) ==
    LET k == CHOOSE n \in 1..Len(parts) :
                 Offset(parts, n) < p /\ p <= Offset(parts, n) + Len(parts[n]) + 1
    IN  IF p = Offset(parts, k) + Len(parts[k]) + 1 THEN " "
        ELSE parts[k][p - Offset(parts, k)]

C3_JoinedAndStripped ==
    t_pc = "done" =>
        LET n == JoinedLen(t_segments)
            solid == {p \in 1..n : JoinedAt(t_segments, p) \notin Whitespace}
        IN  IF solid = {}
            THEN t_result = <<>>
            ELSE LET lo == CHOOSE p \in solid : \A q \in solid : p <= q
                     hi == CHOOSE p \in solid : \A q \in solid : q <= p
                 IN  /\ Len(t_result) = hi - lo + 1
                     /\ \A i \in 1..Len(t_result) :
                            t_result[i] = JoinedAt(t_segments, lo + i - 1)

\* Two segments with blanks at both ends and at the seam were joined.
C3_Witness ==
    /\ t_pc = "done"
    /\ t_segments = << <<"\t", "a">>, <<"a", " ">> >>
    /\ t_result = <<"a", " ", "a">>

\* C11: the batch of a call that raised is not in audio_buffer afterwards (the
\* raising step leaves the buffer as it is), is not the batch of the next
\* call, and no block of it is passed to any other call.
C11_FailedBatchDropped ==
    /\ [][(Len(calls') = Len(calls) + 1 /\ calls'[Len(calls')].outcome = "raised")
            => /\ audio_buffer' = audio_buffer
               /\ Range(calls'[Len(calls')].blocks) \cap Range(audio_buffer') = {}]_vars
    /\ [](\A i \in 1..Len(calls) :
            calls[i].outcome = "raised" =>
                /\ Range(calls[i].blocks) \cap Range(audio_buffer) = {}
                /\ \A j \in 1..Len(calls) :
                      j # i => Range(calls[i].blocks) \cap Range(calls[j].blocks) = {}
                /\ (i < Len(calls) \/ pc \in {"clear", "transcribe"})
                      => Range(calls[i].blocks) \cap Range(audio_data) = {})

\* A batch failed and a later call was made with other blocks.
C11_Witness ==
    /\ Len(calls) = 2
    /\ calls[1].outcome = "raised"
    /\ Len(calls[1].blocks) = 2
    /\ calls[2].blocks = <<3>>

\* C12: after a failed load the failure was printed, the program goes on to
\* open the stream and run the loop, every transcribe_chunk call raises and
\* returns the thread to the loop with the stream open, no LIVE TEXT line is
\* printed, and under fair scheduling of the main thread every buffered block
\* is drained unless the loop is stopped (Ctrl+C).
C12_FailedLoadEveryCallRaises ==
    /\ []((model = "unbound" /\ pc # "import") =>
            /\ stdout[1] = Line("Error loading Whisper model", NoText)
            /\ \A i \in 1..Len(calls) : calls[i].outcome = "raised"
            /\ LiveLines(stdout) = 0)
    /\ [][(model = "unbound" /\ Len(calls') = Len(calls) + 1)
            => /\ calls'[Len(calls')].outcome = "raised"
               /\ pc' = "sleep"
               /\ stream_open']_vars
    /\ \A b \in Blocks :
          (model = "unbound" /\ b \in Range(audio_buffer))
              ~> (b \notin Range(audio_buffer) \/ pc = "stopped")

\* With no model, two batches were drained and discarded and the loop runs on.
C12_Witness ==
    /\ model = "unbound"
    /\ Len(calls) = 2
    /\ calls[1].outcome = "raised"
    /\ calls[2].outcome = "raised"
    /\ stream_open
    /\ pc = "check"

\* C13: the main thread stops only in a step that reports Ctrl+C or a fatal
\* error; once stopped the stream is closed, nothing is appended, no call is
\* made, and the blocks left in audio_buffer were not and are not transcribed.
C13_StopClosesStream ==
    /\ [][(pc # "stopped" /\ pc' = "stopped")
            => stdout'[Len(stdout')].kind \in {"Stopping Real-Time ASR",
                                               "A fatal error occurred"}]_vars
    /\ [](pc = "stopped" =>
            /\ ~stream_open
            /\ ~ENABLED callback
            /\ ~ENABLED Transcribe
            /\ Range(audio_buffer) \cap Range(Passed(calls)) = {})
    /\ [][pc = "stopped" =>
            /\ pc' = "stopped"
            /\ audio_buffer' = audio_buffer
            /\ received' = received
            /\ calls' = calls]_vars

\* Ctrl+C arrived after a call, with a block still in the buffer.
C13_Witness ==
    /\ pc = "stopped"
    /\ calls # <<>>
    /\ audio_buffer # <<>>
    /\ received < MaxBlocks
    /\ stdout[Len(stdout)].kind = "Stopping Real-Time ASR"

===========================================================================
